---- MODULE Spec2Model ----
(***************************************************************************)
(* Byte-level model of aiokafka's record layer:                            *)
(*   aiokafka/record/legacy_records.py  LegacyRecordBatchWriter,           *)
(*                                      LegacyRecordBatchReader            *)
(*   aiokafka/record/memory_records.py  MemoryRecords                      *)
(* Buffers are sequences of bytes (0..255).  Python's None is <<>> and a   *)
(* present value x is <<x>>, so that b"" (<< <<>> >>) and None differ.     *)
(***************************************************************************)
EXTENDS Integers, Sequences, FiniteSets, TLC

\* ------------------------------------------------------------------ bounds
\* Most records a writer is given before close().
MaxRecords == 3
\* Most complete batches in a buffer handed to MemoryRecords.
MaxBatches == 2

\* ------------------------------------------------------- python values
None == <<>>
Some(x) == <<x>>
IsNone(o) == o = <<>>
Get(o) == o[1]
\* len(x) for an optional bytes value that is known to be present
OptLen(o) == IF IsNone(o) THEN 0 ELSE Len(Get(o))

Take(s, n) == SubSeq(s, 1, n)
Drop(s, n) == SubSeq(s, n + 1, Len(s))

\* ------------------------------------------- kafka.protocol.types codecs
Byte(n, k) == (n \div (256 ^ k)) % 256

\* struct.pack(">i", n): big-endian two's complement, 4 bytes
Int32encode(n) ==
    IF n >= 0
    THEN <<Byte(n, 3), Byte(n, 2), Byte(n, 1), Byte(n, 0)>>
    ELSE LET m == -n - 1
         IN <<255 - Byte(m, 3), 255 - Byte(m, 2), 255 - Byte(m, 1), 255 - Byte(m, 0)>>

\* struct.unpack_from(">i", data, at): at is a 0-based byte offset
Int32decode(data, at) ==
    LET b3 == data[at + 1]
        b2 == data[at + 2]
        b1 == data[at + 3]
        b0 == data[at + 4]
    IN IF b3 < 128
       THEN b3 * 16777216 + b2 * 65536 + b1 * 256 + b0
       ELSE -((255 - b3) * 16777216 + (255 - b2) * 65536 + (255 - b1) * 256 + (255 - b0)) - 1

\* struct.pack(">q", n) for the values of the model, which fit 32 bits: the
\* upper four bytes are the sign extension.
Int64encode(n) ==
    (IF n >= 0 THEN <<0, 0, 0, 0>> ELSE <<255, 255, 255, 255>>) \o Int32encode(n)

Int64decode(data, at) == Int32decode(data, at + 4)

\* struct.unpack_from(">b", data, at)
Int8decode(data, at) ==
    LET b == data[at + 1] IN IF b < 128 THEN b ELSE b - 256

\* kafka.protocol.types.Bytes.encode: Int32 length (-1 for None), then data
BytesEncode(o) ==
    IF IsNone(o) THEN Int32encode(-1) ELSE Int32encode(Len(Get(o))) \o Get(o)

\* Bytes.decode at offset at of data: the optional value read
BytesDecode(data, at) ==
    LET n == Int32decode(data, at)
    IN IF n < 0 THEN None ELSE Some(SubSeq(data, at + 5, at + 4 + n))

\* number of bytes Bytes.decode consumes at offset at
BytesSpan(data, at) ==
    LET n == Int32decode(data, at) IN IF n < 0 THEN 4 ELSE 4 + n

\* kafka.util.crc32 stands for zlib's CRC-32; the model keeps a
\* position-weighted checksum of the same bytes, which is all the record layer
\* relies on: a function of the bytes after the CRC field.
RECURSIVE WeightedSum(_, _, _)
WeightedSum(data, lo, hi) ==
    IF lo > hi THEN 0
    ELSE IF lo = hi THEN ((lo % 251) + 1) * (data[lo] + 1)
    ELSE LET mid == (lo + hi) \div 2
         IN (WeightedSum(data, lo, mid) + WeightedSum(data, mid + 1, hi)) % 65521

crc32(data) == (7 + WeightedSum(data, 1, Len(data))) % 65521

\* ----------------------------------------------- kafka.protocol.message
CODEC_MASK == 7
CODEC_GZIP == 1
CODEC_SNAPPY == 2
CODEC_LZ4 == 3
TIMESTAMP_TYPE_MASK == 8
\* Message.HEADER_SIZE: crc(4), magic(1), attributes(1), timestamp(8), key+value size(4*2)
MessageHeaderSize == 22
\* MessageSet.HEADER_SIZE: offset(8) + message_size(4)
MessageSetHeaderSize == 12

\* Message(value, key, magic, attributes, timestamp): the fields after crc
MessageBody(magic, attributes, timestamp, key, value) ==
    <<magic, attributes>>
        \o (IF magic = 1 THEN Int64encode(Get(timestamp)) ELSE <<>>)
        \o BytesEncode(key) \o BytesEncode(value)

\* Message._encode_self: crc32 over message[4:], written in front
MessageEncode(magic, attributes, timestamp, key, value) ==
    LET body == MessageBody(magic, attributes, timestamp, key, value)
    IN Int32encode(crc32(body)) \o body

\* Message.decode(bytes): crc, magic, attributes, then SCHEMAS[magic].fields[3:]
MessageDecode(data) ==
    LET magic == Int8decode(data, 4)
        attributes == Int8decode(data, 5)
        kat == IF magic = 1 THEN 14 ELSE 6
        vat == kat + BytesSpan(data, kat)
    IN [crc |-> Int32decode(data, 0),
        magic |-> magic,
        attributes |-> attributes,
        timestamp |-> IF magic = 1 THEN Some(Int64decode(data, 6)) ELSE None,
        key |-> BytesDecode(data, kat),
        value |-> BytesDecode(data, vat),
        validated_crc |-> crc32(Drop(data, 4))]

\* Message.timestamp_type: None for magic 0, else the attribute bit
MessageTimestampType(msg) ==
    IF msg.magic = 0 THEN None
    ELSE IF (msg.attributes \div TIMESTAMP_TYPE_MASK) % 2 = 1 THEN Some(1) ELSE Some(0)

\* Message.is_compressed
IsCompressed(msg) == msg.attributes % (CODEC_MASK + 1) # 0

\* MessageSet.decode's loop over raw from byte offset at: one item
\* <<offset, size, message>> per framed message.  A frame that runs past the
\* end of raw ends the loop; kafka marks it with a PartialMessage item, which
\* no buffer of this model contains, so the list simply ends.
RECURSIVE MessageSetItems(_, _)
MessageSetItems(raw, at) ==
    IF at >= Len(raw) THEN <<>>
    ELSE IF Len(raw) - at < MessageSetHeaderSize THEN <<>>
    ELSE LET size == Int32decode(raw, at + 8)
         IN IF size < 0 \/ at + 12 + size > Len(raw) THEN <<>>
            ELSE << <<Int64decode(raw, at), size,
                      MessageDecode(SubSeq(raw, at + 13, at + 12 + size))>> >>
                 \o MessageSetItems(raw, at + 12 + size)

\* MessageSet.decode(buffer) on a BytesIO positioned at pos: Int32
\* bytes_to_read, then the items of the next bytes_to_read bytes
MessageSetDecode(buffer, pos) ==
    LET bytes_to_read == Int32decode(buffer, pos)
        raw == SubSeq(buffer, pos + 5, pos + 4 + bytes_to_read)
    IN MessageSetItems(raw, 0)

\* ------------------------------------------------------- kafka.codec
\* The codecs are supplied by the environment.  The model uses one lossless
\* codec for all of them: a byte naming the codec, the length of the data in
\* two bytes, a bitmap with one bit per byte of the data (set when the byte is
\* not zero), and the non-zero bytes.
IsNonZero(b) == b # 0

Bit(data, i) == IF i <= Len(data) /\ data[i] # 0 THEN 1 ELSE 0

\* the bitmap byte of the data bytes 8j-7 .. 8j
BitmapByte(data, j) ==
    LET i == 8 * (j - 1)
    IN Bit(data, i + 1) + 2 * Bit(data, i + 2) + 4 * Bit(data, i + 3) + 8 * Bit(data, i + 4)
        + 16 * Bit(data, i + 5) + 32 * Bit(data, i + 6) + 64 * Bit(data, i + 7)
        + 128 * Bit(data, i + 8)

\* the leading byte of each codec's frame (lz4_encode_old_kafka differs from lz4_encode)
CodecTag(compression_type, magic) ==
    IF compression_type = CODEC_GZIP THEN 31
    ELSE IF compression_type = CODEC_SNAPPY THEN 130
    ELSE IF magic = 0 THEN 2 ELSE 4

\* gzip_encode / snappy_encode / lz4_encode / lz4_encode_old_kafka
CodecEncode(compression_type, magic, data) ==
    <<CodecTag(compression_type, magic), Len(data) \div 256, Len(data) % 256>>
        \o [j \in 1..((Len(data) + 7) \div 8) |-> BitmapByte(data, j)]
        \o SelectSeq(data, IsNonZero)

\* gzip_decode / snappy_decode / lz4_decode / lz4_decode_old_kafka
CodecDecode(data) ==
    LET n == data[2] * 256 + data[3]
        nbitmap == (n + 7) \div 8
        IsSet(i) == (data[3 + ((i + 7) \div 8)] \div (2 ^ ((i - 1) % 8))) % 2 = 1
        Rank(i) == Cardinality({p \in 1..i : IsSet(p)})
    IN [i \in 1..n |-> IF IsSet(i) THEN data[3 + nbitmap + Rank(i)] ELSE 0]

\* ------------------------------------------------------------ io.BytesIO
\* BytesIO.write(data) at position pos: overwrites, and extends at the end
BufWrite(buf, pos, data) == Take(buf, pos) \o data \o Drop(buf, pos + Len(data))

\* ------------------------------------------------------------- inputs
Magics == {0, 1}
CompressionTypes == {0, CODEC_GZIP, CODEC_SNAPPY, CODEC_LZ4}
BatchSizes == {10, 68, 1000}
Timestamps == {9999999}
\* (key, value) pairs: null and non-null, empty and non-empty
KeyValues == { <<None, Some(<<7>>)>>, <<Some(<<1>>), Some(<<2, 3>>)>>, <<Some(<<>>), None>> }
\* the offsets a producer may give its next record: any start, then ascending
AppendOffsets(records) ==
    IF Len(records) = 0 THEN {0, 5} ELSE {records[Len(records)].offset + 1}
\* time.time() * 1000 when a Message is built without a timestamp
Clock == {77}

VARIABLES
    mode,        \* "produce": a writer feeds the reader; "fetch": a fetched message set does; "memory": MemoryRecords
    writer,      \* LegacyRecordBatchWriter: _magic, _compression_type, _batch_size, _buffer, position, _first_message
    appended,    \* the records append accepted, in order
    last_call,   \* the writer's last call with its arguments and return value
    input,       \* the BytesIO handed to LegacyRecordBatchReader, and what it was built from
    reader,      \* LegacyRecordBatchReader: _message, the generator's position and the records yielded
    memory       \* MemoryRecords: _buffer, _slices, _remaining, _next_slice and the calls made

vars == <<mode, writer, appended, last_call, input, reader, memory>>

\* --------------------------------------------- LegacyRecordBatchWriter
\* __init__: the buffer starts with the 4 bytes of the batch size
WriterInit(magic, compression_type, batch_size) ==
    [magic |-> magic,
     compression_type |-> compression_type,
     batch_size |-> batch_size,
     buffer |-> Int32encode(0),
     pos |-> 4,
     first_message |-> TRUE,
     closed |-> FALSE]

\* _is_full with >= for >
IsFullOffByOne(w, key, value) ==
    IF w.first_message THEN FALSE
    ELSE w.pos + MessageSetHeaderSize + MessageHeaderSize
            + OptLen(key) + OptLen(value) >= w.batch_size

\* _is_full with Message.HEADER_SIZE left out of needed_bytes
IsFullNoMessageHeader(w, key, value) ==
    IF w.first_message THEN FALSE
    ELSE w.pos + MessageSetHeaderSize + OptLen(key) + OptLen(value) > w.batch_size

\* _is_full
IsFull(w, key, value) ==
    IF w.first_message THEN FALSE
    ELSE LET needed_bytes == MessageSetHeaderSize + MessageHeaderSize
                                + (IF ~IsNone(key) THEN Len(Get(key)) ELSE 0)
                                + (IF ~IsNone(value) THEN Len(Get(value)) ELSE 0)
         IN w.pos + needed_bytes > w.batch_size

\* append's bytes: Int64 offset, Int32 len(encoded), encoded
FramedMessage(magic, offset, timestamp, key, value) ==
    LET encoded == IF magic = 0
                   THEN MessageEncode(magic, 0, None, key, value)
                   ELSE MessageEncode(magic, 0, timestamp, key, value)
    IN Int64encode(offset) \o Int32encode(Len(encoded)) \o encoded

\* append: the writer after the call (unchanged when the batch is full)
AppendTo(w, offset, timestamp, key, value) ==
    IF IsFull(w, key, value) THEN w
    ELSE LET msg == FramedMessage(w.magic, offset, timestamp, key, value)
         IN [w EXCEPT !.first_message = FALSE,
                      !.buffer = BufWrite(w.buffer, w.pos, msg),
                      !.pos = w.pos + Len(msg)]

append(offset, timestamp, key, value) ==
    /\ mode = "produce"
    /\ ~writer.closed
    /\ Len(appended) < MaxRecords
    /\ LET ret == ~IsFull(writer, key, value)
       IN /\ writer' = AppendTo(writer, offset, timestamp, key, value)
          /\ appended' = IF ret
                         THEN Append(appended, [offset |-> offset, timestamp |-> timestamp,
                                                key |-> key, value |-> value])
                         ELSE appended
          /\ last_call' = [op |-> "append", offset |-> offset, timestamp |-> timestamp,
                           key |-> key, value |-> value, ret |-> ret]
    /\ UNCHANGED <<mode, input, reader, memory>>

\* _maybe_compress without the truncate() after the seek
MaybeCompressNoTruncate(w, now) ==
    IF w.compression_type # 0
    THEN LET data == Drop(w.buffer, 4)
             compressed == CodecEncode(w.compression_type, w.magic, data)
             encoded == MessageEncode(w.magic, w.compression_type,
                                      IF w.magic > 0 THEN Some(now) ELSE None,
                                      None, Some(compressed))
         IN IF Len(encoded) + 12 < Len(data)
            THEN [buffer |-> BufWrite(w.buffer, 4,
                                Int64encode(0) \o Int32encode(Len(encoded)) \o encoded),
                  pos |-> 16 + Len(encoded),
                  ret |-> TRUE]
            ELSE [buffer |-> w.buffer, pos |-> w.pos, ret |-> FALSE]
    ELSE [buffer |-> w.buffer, pos |-> w.pos, ret |-> FALSE]

\* _maybe_compress without the comparison of sizes: the wrapper always goes in
MaybeCompressAlways(w, now) ==
    IF w.compression_type # 0
    THEN LET data == Drop(w.buffer, 4)
             compressed == CodecEncode(w.compression_type, w.magic, data)
             encoded == MessageEncode(w.magic, w.compression_type,
                                      IF w.magic > 0 THEN Some(now) ELSE None,
                                      None, Some(compressed))
             written == BufWrite(w.buffer, 4,
                            Int64encode(0) \o Int32encode(Len(encoded)) \o encoded)
         IN [buffer |-> Take(written, 16 + Len(encoded)),
             pos |-> 16 + Len(encoded),
             ret |-> TRUE]
    ELSE [buffer |-> w.buffer, pos |-> w.pos, ret |-> FALSE]

\* _maybe_compress: the buffer, the position and the value returned
MaybeCompress(w, now) ==
    IF w.compression_type # 0
    THEN LET data == Drop(w.buffer, 4)
             compressed == CodecEncode(w.compression_type, w.magic, data)
             encoded == MessageEncode(w.magic, w.compression_type,
                                      IF w.magic > 0 THEN Some(now) ELSE None,
                                      None, Some(compressed))
             header_size == 12
         IN IF Len(encoded) + header_size < Len(data)
            THEN LET written == BufWrite(w.buffer, 4,
                                    Int64encode(0) \o Int32encode(Len(encoded)) \o encoded)
                 IN [buffer |-> Take(written, 16 + Len(encoded)),
                     pos |-> 16 + Len(encoded),
                     ret |-> TRUE]
            ELSE [buffer |-> w.buffer, pos |-> w.pos, ret |-> FALSE]
    ELSE [buffer |-> w.buffer, pos |-> w.pos, ret |-> FALSE]

\* close: compress, rewrite the first 4 bytes, seek(0)
CloseWriter(w, now) ==
    LET c == MaybeCompress(w, now)
        buffer_len == c.pos - 4
    IN [w EXCEPT !.buffer = BufWrite(c.buffer, 0, Int32encode(buffer_len)),
                 !.pos = 0,
                 !.closed = TRUE]

NoCall == [op |-> "none", offset |-> 0, timestamp |-> 0, key |-> None, value |-> None, ret |-> FALSE]

close(now) ==
    /\ mode = "produce"
    /\ ~writer.closed
    /\ writer' = CloseWriter(writer, now)
    /\ last_call' = [NoCall EXCEPT !.op = "close", !.ret = MaybeCompress(writer, now).ret]
    /\ input' = [kind |-> "writer",
                 buffer |-> writer'.buffer,
                 pos |-> writer'.pos,
                 magic |-> writer.magic,
                 wrapped |-> MaybeCompress(writer, now).ret,
                 outer_offset |-> 0,
                 bad_crc |-> 0,
                 records |-> appended]
    /\ UNCHANGED <<mode, appended, reader, memory>>

\* --------------------------------------------- LegacyRecordBatchReader
NewReader == [state |-> "new", message |-> <<>>, inner_mset |-> <<>>, i |-> 0, records |-> <<>>,
              validate_crc |-> None]

\* __init__(self, buffer): MessageSet.decode, a non-empty list asserted, the
\* first message kept.  The signature takes no validate_crc: a call that
\* passes one, as ABCRecordBatchReader.__init__ declares it, is a TypeError.
ReaderInit(validate_crc) ==
    /\ input.kind \in {"writer", "fetched"}
    /\ reader.state = "new"
    /\ IF ~IsNone(validate_crc)
       THEN reader' = [reader EXCEPT !.state = "TypeError", !.validate_crc = validate_crc]
       ELSE LET messages == MessageSetDecode(input.buffer, input.pos)
            IN IF Len(messages) = 0
               THEN reader' = [reader EXCEPT !.state = "AssertionError"]
               ELSE reader' = [reader EXCEPT !.state = "ready", !.message = messages[1]]
    /\ UNCHANGED <<mode, writer, appended, last_call, input, memory>>

\* Message.decompress: MessageSet.decode(raw_bytes, bytes_to_read=len(raw_bytes))
Decompress(msg) == MessageSetItems(CodecDecode(Get(msg.value)), 0)

\* absolute_base_offset taken from the first inner message instead of the last
AbsoluteBaseOffsetFirst(offset, msg, inner_mset) ==
    IF msg.magic > 0
    THEN offset - inner_mset[1][1]
    ELSE -1

\* absolute_base_offset of __iter__
AbsoluteBaseOffset(offset, msg, inner_mset) ==
    IF msg.magic > 0
    THEN offset - inner_mset[Len(inner_mset)][1]
    ELSE -1

\* the LegacyRecord __iter__ yields for the k-th message of a compressed set
InnerRecord(offset, msg, inner_mset, k) ==
    LET inner_offset == inner_mset[k][1]
        inner_msg == inner_mset[k][3]
        absolute_base_offset == AbsoluteBaseOffset(offset, msg, inner_mset)
        inner_timestamp ==
            IF msg.magic > 0
            THEN IF MessageTimestampType(msg) = Some(0)
                 THEN inner_msg.timestamp
                 ELSE msg.timestamp
            ELSE Some(0)
    IN [offset |-> IF absolute_base_offset >= 0
                   THEN inner_offset + absolute_base_offset
                   ELSE inner_offset,
        timestamp |-> inner_timestamp,
        timestamp_type |-> MessageTimestampType(msg),
        key |-> inner_msg.key,
        value |-> inner_msg.value,
        crc |-> inner_msg.crc]

\* the LegacyRecord __iter__ yields for a message that is not compressed
OuterRecord(offset, msg) ==
    [offset |-> offset,
     timestamp |-> msg.timestamp,
     timestamp_type |-> MessageTimestampType(msg),
     key |-> msg.key,
     value |-> msg.value,
     crc |-> msg.crc]

\* __iter__, one resumption of the generator: it starts (decompressing a
\* compressed message once) and yields the first record, yields the next
\* one, or ends
iter_next ==
    /\ reader.state \in {"ready", "running"}
    /\ LET offset == reader.message[1]
           msg == reader.message[3]
       IN IF reader.state = "ready"
          THEN IF IsCompressed(msg)
               THEN LET inner_mset == Decompress(msg)
                    IN IF Len(inner_mset) = 0
                       THEN reader' = [reader EXCEPT
                                !.state = IF msg.magic > 0 THEN "IndexError" ELSE "done"]
                       ELSE reader' = [reader EXCEPT
                                !.state = "running",
                                !.inner_mset = inner_mset,
                                !.i = 1,
                                !.records = <<InnerRecord(offset, msg, inner_mset, 1)>>]
               ELSE reader' = [reader EXCEPT !.state = "running",
                                             !.i = 1,
                                             !.records = <<OuterRecord(offset, msg)>>]
          ELSE IF reader.i < Len(reader.inner_mset)
               THEN reader' = [reader EXCEPT
                        !.i = reader.i + 1,
                        !.records = Append(reader.records,
                                           InnerRecord(offset, msg, reader.inner_mset, reader.i + 1))]
               ELSE reader' = [reader EXCEPT !.state = "done"]
    /\ UNCHANGED <<mode, writer, appended, last_call, input, memory>>

\* ------------------------------------------- fetched message sets
\* A message set as a broker sends it: n messages, each with a one-byte
\* value; under a codec they sit in a wrapper message whose offset is
\* that of the last one.  For magic 1 the inner offsets count from first; for
\* magic 0 they are absolute.
FetchedRecords(d) ==
    [k \in 1..d.n |->
        [offset |-> IF d.codec # 0 /\ d.magic = 1
                    THEN d.first + k - 1
                    ELSE d.outer_offset - d.n + k,
         timestamp |-> Some(1000 + k),
         key |-> None,
         value |-> Some(<<k>>)]]

\* a framed message whose stored crc is off by one when bad
Framed(offset, encoded, bad) ==
    Int64encode(offset) \o Int32encode(Len(encoded))
        \o (IF bad THEN Int32encode(Int32decode(encoded, 0) + 1) \o Drop(encoded, 4)
            ELSE encoded)

RECURSIVE FramedRecords(_, _, _, _)
FramedRecords(magic, records, k, bad) ==
    IF k > Len(records) THEN <<>>
    ELSE Framed(records[k].offset,
                MessageEncode(magic, 0, records[k].timestamp, records[k].key, records[k].value),
                bad /\ k = 1)
         \o FramedRecords(magic, records, k + 1, bad)

FetchedBuffer(d) ==
    LET records == FetchedRecords(d)
        plain == FramedRecords(d.magic, records, 1, d.bad_crc = (IF d.codec = 0 THEN 1 ELSE 2))
        attributes == d.codec + d.timestamp_type * TIMESTAMP_TYPE_MASK
        wrapper == Framed(d.outer_offset,
                          MessageEncode(d.magic, attributes, Some(2000), None,
                                        Some(CodecEncode(d.codec, d.magic, plain))),
                          d.bad_crc = 1)
        mset == IF d.codec = 0 THEN plain ELSE wrapper
    IN Int32encode(Len(mset)) \o mset

FetchedInputs ==
    { d \in [magic : Magics, codec : {0, CODEC_GZIP, CODEC_LZ4}, timestamp_type : {0, 1},
             outer_offset : {1, 7}, first : {0, 3}, n : {1, 2}, bad_crc : {0, 1, 2}] :
        /\ d.magic = 0 => d.timestamp_type = 0
        /\ d.codec = 0 => d.timestamp_type = 0 /\ d.bad_crc # 2
        /\ (d.codec = 0 \/ d.magic = 0) => d.first = 0 }

\* ------------------------------------------------------ MemoryRecords
LENGTH_OFFSET == 8
LOG_OVERHEAD == 12
MAGIC_OFFSET == 16
RECORD_OVERHEAD_V0 == 14

\* _split_slices with remaining assigned after the two truncation checks
RECURSIVE SplitSlicesFromStale(_, _, _, _)
SplitSlicesFromStale(bytes_data, next_slice, remaining, slices) ==
    LET buffer_len == Len(bytes_data)
    IN IF next_slice = buffer_len
       THEN [error |-> FALSE, slices |-> slices, remaining |-> remaining]
       ELSE IF buffer_len - next_slice < LOG_OVERHEAD
       THEN [error |-> FALSE, slices |-> slices, remaining |-> remaining]
       ELSE LET length == Int32decode(bytes_data, next_slice + LENGTH_OFFSET)
                slice_end == next_slice + length + LOG_OVERHEAD
            IN IF length < RECORD_OVERHEAD_V0
               THEN [error |-> TRUE, slices |-> <<>>, remaining |-> 0]
               ELSE IF slice_end > buffer_len
               THEN [error |-> FALSE, slices |-> slices, remaining |-> remaining]
               ELSE SplitSlicesFromStale(bytes_data, slice_end, buffer_len - next_slice,
                        Append(slices, SubSeq(bytes_data, next_slice + 1, slice_end)))

\* _split_slices with the end-of-buffer check before the minimum-length check
RECURSIVE SplitSlicesFromEndFirst(_, _, _, _)
SplitSlicesFromEndFirst(bytes_data, next_slice, remaining, slices) ==
    LET buffer_len == Len(bytes_data)
    IN IF next_slice = buffer_len
       THEN [error |-> FALSE, slices |-> slices, remaining |-> remaining]
       ELSE LET remaining2 == buffer_len - next_slice
            IN IF remaining2 < LOG_OVERHEAD
               THEN [error |-> FALSE, slices |-> slices, remaining |-> remaining2]
               ELSE LET length == Int32decode(bytes_data, next_slice + LENGTH_OFFSET)
                        slice_end == next_slice + length + LOG_OVERHEAD
                    IN IF slice_end > buffer_len
                       THEN [error |-> FALSE, slices |-> slices, remaining |-> remaining2]
                       ELSE IF length < RECORD_OVERHEAD_V0
                       THEN [error |-> TRUE, slices |-> <<>>, remaining |-> 0]
                       ELSE SplitSlicesFromEndFirst(bytes_data, slice_end, remaining2,
                                Append(slices, SubSeq(bytes_data, next_slice + 1, slice_end)))

\* _split_slices: the while loop from position next_slice on, with the
\* value remaining holds on entry and the slices found so far
RECURSIVE SplitSlicesFrom(_, _, _, _)
SplitSlicesFrom(bytes_data, next_slice, remaining, slices) ==
    LET buffer_len == Len(bytes_data)
    IN IF next_slice = buffer_len
       THEN [error |-> FALSE, slices |-> slices, remaining |-> remaining]
       ELSE LET remaining2 == buffer_len - next_slice
            IN IF remaining2 # 0 /\ remaining2 < LOG_OVERHEAD
               THEN [error |-> FALSE, slices |-> slices, remaining |-> remaining2]
               ELSE LET length == Int32decode(bytes_data, next_slice + LENGTH_OFFSET)
                        slice_end == next_slice + length + LOG_OVERHEAD
                    IN IF length < RECORD_OVERHEAD_V0
                       THEN [error |-> TRUE, slices |-> <<>>, remaining |-> 0]
                       ELSE IF slice_end > buffer_len
                       THEN [error |-> FALSE, slices |-> slices, remaining |-> remaining2]
                       ELSE SplitSlicesFrom(bytes_data, slice_end, remaining2,
                                Append(slices, SubSeq(bytes_data, next_slice + 1, slice_end)))

\* _split_slices
SplitSlices(bytes_data) == SplitSlicesFrom(bytes_data, 0, 0, <<>>)

NoMemory == [state |-> "none", buffer |-> <<>>, slices |-> <<>>, remaining |-> 0,
             next_slice |-> 0, returned |-> <<>>, ret |-> None, has |-> None]

\* __init__: CorruptRecordException leaves no object
MemoryRecordsInit ==
    /\ mode = "memory"
    /\ memory.state = "new"
    /\ LET split == SplitSlices(memory.buffer)
       IN IF split.error
          THEN memory' = [memory EXCEPT !.state = "CorruptRecordException"]
          ELSE memory' = [memory EXCEPT !.state = "ready",
                                        !.slices = split.slices,
                                        !.remaining = split.remaining,
                                        !.next_slice = 0]
    /\ UNCHANGED <<mode, writer, appended, last_call, input, reader>>

\* size_in_bytes
SizeInBytes(m) == Len(m.buffer)

\* valid_bytes
ValidBytes(m) == Len(m.buffer) - m.remaining

\* has_next
HasNext(m) == Len(m.slices) > m.next_slice

has_next ==
    /\ mode = "memory"
    /\ memory.state = "ready"
    /\ memory' = [memory EXCEPT !.has = Some(HasNext(memory))]
    /\ UNCHANGED <<mode, writer, appended, last_call, input, reader>>

\* next_batch's dispatch with the Magic byte read unsigned (">B")
BatchForUnsigned(buffer) ==
    LET magic == buffer[MAGIC_OFFSET + 1]
    IN IF magic >= 2
       THEN [reader |-> "DefaultRecordBatch", buffer |-> buffer, magic |-> magic]
       ELSE [reader |-> "LegacyRecordBatch", buffer |-> buffer, magic |-> magic]

\* the reader next_batch builds on a slice, by the Magic byte
BatchFor(buffer) ==
    LET magic == Int8decode(buffer, MAGIC_OFFSET)
    IN IF magic >= 2
       THEN [reader |-> "DefaultRecordBatch", buffer |-> buffer, magic |-> magic]
       ELSE [reader |-> "LegacyRecordBatch", buffer |-> buffer, magic |-> magic]

\* next_batch: the object after the call, ret the value returned
NextBatch(m) ==
    IF ~HasNext(m)
    THEN [m EXCEPT !.ret = None]
    ELSE LET buffer == m.slices[m.next_slice + 1]
         IN [m EXCEPT !.next_slice = m.next_slice + 1,
                      !.ret = Some(BatchFor(buffer)),
                      !.returned = Append(m.returned, BatchFor(buffer))]

next_batch ==
    /\ mode = "memory"
    /\ memory.state = "ready"
    /\ memory' = [NextBatch(memory) EXCEPT !.has = None]
    /\ UNCHANGED <<mode, writer, appended, last_call, input, reader>>

\* ------------------------------------------- buffers given to MemoryRecords
\* a v2 batch as far as MemoryRecords reads it: BaseOffset, Length,
\* PartitionLeaderEpoch, Magic, and the rest of the 61-byte header
StubBatch(base_offset, magic) ==
    Int64encode(base_offset) \o Int32encode(49) \o Int32encode(0)
        \o <<IF magic >= 0 THEN magic ELSE magic + 256>> \o [j \in 1..44 |-> 0]

\* complete batches, with the magic each was written with
Batches ==
    { [magic |-> 0, bytes |-> FramedMessage(0, 0, None, None, None)],
      [magic |-> 1, bytes |-> FramedMessage(1, 1, Some(9999999), Some(<<1>>), Some(<<2, 3>>))],
      [magic |-> 2, bytes |-> StubBatch(2, 2)],
      [magic |-> -1, bytes |-> StubBatch(3, -1)] }

\* sequences of at most MaxBatches batches
RECURSIVE BatchSeqs(_)
BatchSeqs(n) ==
    IF n = 0 THEN { <<>> }
    ELSE BatchSeqs(n - 1)
         \cup { Append(s, b) : s \in { t \in BatchSeqs(n - 1) : Len(t) = n - 1 }, b \in Batches }

\* what follows the complete batches: nothing; a batch cut short before its
\* 12-byte header is whole ("short") or after it ("overrun"); a header whose
\* Length is below RECORD_OVERHEAD_V0 ("corrupt"), with or without the bytes
\* it declares
Tails ==
    { [kind |-> "none", bytes |-> <<>>] }
    \cup { [kind |-> "short", bytes |-> Take(b.bytes, n)] : b \in Batches, n \in {1, 11} }
    \cup { [kind |-> "overrun", bytes |-> Take(b.bytes, n)] : b \in Batches, n \in {12, 25} }
    \cup { [kind |-> "corrupt", bytes |-> Int64encode(9) \o Int32encode(length) \o [j \in 1..n |-> 0]] :
             length \in {13, 0, -1}, n \in {0, 13} }

RECURSIVE Concat(_, _)
Concat(batches, k) ==
    IF k > Len(batches) THEN <<>> ELSE batches[k].bytes \o Concat(batches, k + 1)

\* ------------------------------------------------------ specifications
InitProduce ==
    /\ mode = "produce"
    /\ \E magic \in Magics, compression_type \in CompressionTypes, batch_size \in BatchSizes :
          writer = WriterInit(magic, compression_type, batch_size)
    /\ appended = <<>>
    /\ last_call = NoCall
    /\ input = [kind |-> "none"]
    /\ reader = NewReader
    /\ memory = NoMemory

InitFetch ==
    /\ mode = "fetch"
    /\ writer = WriterInit(0, 0, 0)
    /\ appended = <<>>
    /\ last_call = NoCall
    /\ \E d \in FetchedInputs :
          input = [kind |-> "fetched",
                   buffer |-> FetchedBuffer(d),
                   pos |-> 0,
                   magic |-> d.magic,
                   wrapped |-> d.codec # 0,
                   outer_offset |-> d.outer_offset,
                   bad_crc |-> d.bad_crc,
                   records |-> FetchedRecords(d)]
    /\ reader = NewReader
    /\ memory = NoMemory

Init == InitProduce \/ InitFetch

Next ==
    \/ \E kv \in KeyValues, timestamp \in Timestamps, offset \in AppendOffsets(appended) :
          append(offset, Some(timestamp), kv[1], kv[2])
    \/ \E now \in Clock : close(now)
    \/ \E validate_crc \in {None, Some(TRUE), Some(FALSE)} : ReaderInit(validate_crc)
    \/ iter_next

Spec == Init /\ [][Next]_vars

InitMemory ==
    /\ mode = "memory"
    /\ writer = WriterInit(0, 0, 0)
    /\ appended = <<>>
    /\ last_call = NoCall
    /\ reader = NewReader
    /\ \E batches \in BatchSeqs(MaxBatches), tail \in Tails :
          /\ input = [kind |-> "memory", batches |-> batches, tail |-> tail]
          /\ memory = [NoMemory EXCEPT !.state = "new",
                                       !.buffer = Concat(batches, 1) \o tail.bytes]

NextMemory ==
    \/ MemoryRecordsInit
    \/ has_next
    \/ next_batch

SpecMemory == InitMemory /\ [][NextMemory]_vars

\* =================================================================== claims
\* what the reader was given came out of this model's writer
FromWriter == input.kind = "writer"

\* the reader has a compression wrapper in front of it
Wrapped == input.kind \in {"writer", "fetched"} /\ input.wrapped

\* outer_offset - inner_last_relative_offset of the message set read
InputBase == input.outer_offset - input.records[Len(input.records)].offset

\* C1: (legacy round trip) iterating a reader built on the buffer close()
\* returned yields exactly the appended records: as many, in the same order,
\* each with the offset, key and value appended.
C1_RoundTrip ==
    (FromWriter /\ reader.state = "done") =>
        /\ Len(reader.records) = Len(appended)
        /\ \A k \in 1..Len(reader.records) :
              /\ k <= Len(appended)
              /\ reader.records[k].offset = appended[k].offset
              /\ reader.records[k].key = appended[k].key
              /\ reader.records[k].value = appended[k].value

\* C5: (append policy) the first append returns True; a later one returns
\* False exactly when buffer size + 12 + 22 + len(key) + len(value) >
\* batch_size; a rejected append changes nothing, an accepted one adds exactly
\* one framed message, with the record's offset, key and value, at the end.
C5_AppendStep ==
    (~writer.closed /\ last_call'.op = "append") =>
        LET c == last_call'
            size == Len(writer.buffer)
            added == Drop(writer'.buffer, size)
            items == MessageSetItems(added, 0)
        IN /\ writer.first_message => c.ret
           /\ ~writer.first_message =>
                 (c.ret <=> ~(size + 12 + 22 + OptLen(c.key) + OptLen(c.value) > writer.batch_size))
           /\ ~c.ret => writer' = writer /\ appended' = appended
           /\ c.ret =>
                 /\ Take(writer'.buffer, size) = writer.buffer
                 /\ Len(items) = 1
                 /\ Len(added) = 12 + items[1][2]
                 /\ items[1][1] = c.offset
                 /\ items[1][3].key = c.key
                 /\ items[1][3].value = c.value
                 /\ items[1][3].magic = writer.magic
                 /\ Len(appended') = Len(appended) + 1

C5_AppendPolicy == [][C5_AppendStep]_vars

\* a third record was refused after the second was accepted
C5_Witness ==
    /\ last_call.op = "append"
    /\ ~last_call.ret
    /\ Len(appended) = 2
    /\ ~writer.closed

\* C6: (length prefix after close) the 4-byte prefix of the buffer close()
\* returns equals the number of bytes after it, with or without the
\* compressed wrapper in place, and the buffer is positioned at 0.
C6_LengthPrefix ==
    writer.closed =>
        /\ Int32decode(writer.buffer, 0) = Len(writer.buffer) - 4
        /\ writer.pos = 0

\* close() put the wrapper in place of two or more records
C6_Witness ==
    /\ writer.closed
    /\ input.wrapped
    /\ Len(appended) >= 2

\* C7 as stated: (offset reconstruction) under a wrapper with magic >= 1 every
\* inner record has offset inner_offset + (outer_offset - last inner offset),
\* whatever the offsets are; under a magic 0 wrapper the inner offset; and a
\* message that is not compressed its own offset.
C7_AlwaysRebased ==
    (input.kind \in {"writer", "fetched"}) =>
        \A k \in 1..Len(reader.records) :
            reader.records[k].offset =
                IF Wrapped /\ input.magic >= 1
                THEN input.records[k].offset + InputBase
                ELSE input.records[k].offset

\* C7 amended: as C7, but under a wrapper with magic >= 1 the inner offsets
\* are rebased only when outer_offset - last inner offset is not negative,
\* and are yielded verbatim when it is.
C7_RebasedWhenNotNegative ==
    (input.kind \in {"writer", "fetched"}) =>
        \A k \in 1..Len(reader.records) :
            reader.records[k].offset =
                IF Wrapped /\ input.magic >= 1 /\ InputBase >= 0
                THEN input.records[k].offset + InputBase
                ELSE input.records[k].offset

\* two inner records of a magic 1 wrapper were moved by a positive base
C7_Witness ==
    /\ input.kind = "fetched"
    /\ Wrapped
    /\ input.magic = 1
    /\ InputBase > 0
    /\ reader.state = "done"
    /\ Len(reader.records) = 2
    /\ reader.records[1].offset # input.records[1].offset

\* C8: (legacy timestamps) every record read from a magic 0 batch has no
\* timestamp (None), whatever the compression type; every record read from a
\* magic 1 batch carries the timestamp it was appended with.
C8_Timestamps ==
    FromWriter =>
        \A k \in 1..Len(reader.records) :
            reader.records[k].timestamp =
                IF input.magic = 0 THEN None ELSE appended[k].timestamp

\* C9: (crc validation) with validation asked for at construction, reading a
\* batch with a record whose stored crc is wrong ends in CrcCheckFailed.
C9_CrcValidated ==
    (reader.validate_crc = Some(TRUE) /\ input.bad_crc # 0 /\ reader.state # "new") =>
        reader.state = "CrcCheckFailed"

\* ---------------------------------------------------- MemoryRecords claims
\* the buffer is input.batches, whole, followed by input.tail
CompleteBatches == [k \in 1..Len(input.batches) |-> input.batches[k].bytes]

RECURSIVE TotalLen(_, _)
TotalLen(slices, k) ==
    IF k > Len(slices) THEN 0 ELSE Len(slices[k]) + TotalLen(slices, k + 1)

Constructed == mode = "memory" /\ memory.state # "new"

\* C2: (truncation tolerance) complete batches followed by a batch cut short,
\* before or after its 12-byte header: construction raises nothing, the
\* slices are exactly the complete batches, and remaining is the length of
\* the tail, which is > 0.
C2_TruncatedTail ==
    (Constructed /\ input.tail.kind \in {"short", "overrun"}) =>
        /\ memory.state = "ready"
        /\ memory.slices = CompleteBatches
        /\ memory.remaining = Len(input.tail.bytes)
        /\ memory.remaining > 0

\* two batches were sliced off in front of a batch whose header is whole
C2_Witness ==
    /\ Constructed
    /\ input.tail.kind = "overrun"
    /\ Len(input.batches) = 2
    /\ Len(memory.slices) = 2
    /\ memory.remaining >= 12

\* C3: (byte accounting) after a successful construction valid_bytes() is
\* the total length of the slices, size_in_bytes() - valid_bytes() the number
\* of bytes after the last slice, and a buffer of complete batches alone has
\* remaining 0 and valid_bytes() = size_in_bytes().
C3_ByteAccounting ==
    (mode = "memory" /\ memory.state = "ready") =>
        /\ ValidBytes(memory) = TotalLen(memory.slices, 1)
        /\ SizeInBytes(memory) - ValidBytes(memory)
              = Len(memory.buffer) - TotalLen(memory.slices, 1)
        /\ input.tail.kind = "none" =>
              /\ memory.remaining = 0
              /\ ValidBytes(memory) = SizeInBytes(memory)

\* C4: (corrupt length) a batch position with 12 bytes or more whose Length
\* is below 14, negative ones included: construction fails with
\* CorruptRecordException, there is no object to iterate, not even over the
\* complete batches in front, and the buffer is not taken for a truncated one.
C4_CorruptLength ==
    (Constructed /\ input.tail.kind = "corrupt") =>
        /\ memory.state = "CorruptRecordException"
        /\ memory.slices = <<>>
        /\ memory.returned = <<>>
        /\ ~HasNext(memory)

\* a header alone, whose Length of 13 also runs past the end, behind two
\* complete batches
C4_Witness ==
    /\ Constructed
    /\ input.tail.kind = "corrupt"
    /\ Len(input.tail.bytes) = 12
    /\ Int32decode(input.tail.bytes, 8) = 13
    /\ Len(input.batches) = 2
    /\ memory.state = "CorruptRecordException"

\* the batch next_batch is to return for the k-th complete batch
ExpectedBatch(k) ==
    [reader |-> IF input.batches[k].magic >= 2 THEN "DefaultRecordBatch" ELSE "LegacyRecordBatch",
     buffer |-> input.batches[k].bytes,
     magic |-> input.batches[k].magic]

C10_Returned ==
    (mode = "memory" /\ memory.state = "ready") =>
        /\ Len(memory.returned) <= Len(input.batches)
        /\ memory.returned = [k \in 1..Len(memory.returned) |-> ExpectedBatch(k)]
        /\ HasNext(memory) <=> Len(memory.returned) < Len(input.batches)
        /\ ~IsNone(memory.has) => (Get(memory.has) <=> Len(memory.returned) < Len(input.batches))
        /\ ~IsNone(memory.ret) => Get(memory.ret) = memory.returned[Len(memory.returned)]

\* a step taken once has_next() is false; next_batch is the call that resets has
C10_Exhausted ==
    (mode = "memory" /\ memory.state = "ready" /\ ~HasNext(memory)) =>
        /\ memory'.returned = memory.returned
        /\ memory'.next_slice = memory.next_slice
        /\ memory'.slices = memory.slices
        /\ memory'.remaining = memory.remaining
        /\ IsNone(memory'.has) => IsNone(memory'.ret)

\* C10: (batch order and exhaustion) next_batch() returns the complete
\* batches in buffer order, each once, each on its own slice and with the
\* reader its Magic byte selects (default for magic >= 2, legacy otherwise);
\* has_next() is true exactly while a batch is unreturned; after that
\* next_batch() returns None and changes nothing.
C10_BatchOrder == [](C10_Returned) /\ [][C10_Exhausted]_vars

\* a default and then a legacy batch were returned, and next_batch() then gave None
C10_Witness ==
    /\ mode = "memory"
    /\ memory.state = "ready"
    /\ Len(memory.returned) = 2
    /\ memory.returned[1].reader = "DefaultRecordBatch"
    /\ memory.returned[2].reader = "LegacyRecordBatch"
    /\ IsNone(memory.ret)
    /\ IsNone(memory.has)

\* ------------------------------------------------- close and batch size
\* the length of the wrapper message close() would encode for the records
\* region data: crc, magic, attributes, the timestamp of magic 1, a null key
\* and the compressed bytes as value
WrapperLen(w, data) ==
    4 + 1 + 1 + (IF w.magic > 0 THEN 8 ELSE 0) + 4 + 4
        + Len(CodecEncode(w.compression_type, w.magic, data))

C11_CloseStep ==
    (~writer.closed /\ writer'.closed) =>
        LET data == Drop(writer.buffer, 4)
            after == Drop(writer'.buffer, 4)
            replaced == /\ writer.compression_type # 0
                        /\ WrapperLen(writer, data) + 12 < Len(data)
            items == MessageSetItems(after, 0)
        IN /\ replaced =>
                 /\ Len(after) = 12 + WrapperLen(writer, data)
                 /\ Len(items) = 1
                 /\ items[1][1] = 0
                 /\ items[1][2] = WrapperLen(writer, data)
                 /\ items[1][3].attributes = writer.compression_type
                 /\ items[1][3].magic = writer.magic
                 /\ items[1][3].value
                       = Some(CodecEncode(writer.compression_type, writer.magic, data))
           /\ ~replaced => after = data
           /\ last_call'.ret <=> replaced
           /\ Len(writer'.buffer) <= Len(writer.buffer)

\* C11: (best-effort compression) with a compression type configured close()
\* puts one wrapper message (offset 0, attributes = the compression code,
\* value = the compressed bytes) in place of the records exactly when the
\* wrapper's encoded length plus 12 is strictly below the length of the
\* records region, and keeps the records byte for byte otherwise; without a
\* compression type the records never change; the buffer never grows.
C11_BestEffortCompression == [][C11_CloseStep]_vars

\* close() put the wrapper in place of two records
C11_Witness ==
    /\ writer.closed
    /\ writer.compression_type # 0
    /\ last_call.op = "close"
    /\ last_call.ret
    /\ Len(appended) = 2
    /\ Len(MessageSetItems(Drop(writer.buffer, 4), 0)) = 1

\* an accepted append writes at most 12 + 22 + len(key) + len(value) bytes
C12_AppendStep ==
    (~writer.closed /\ last_call'.op = "append" /\ last_call'.ret) =>
        Len(writer'.buffer) - Len(writer.buffer)
            <= 12 + 22 + OptLen(last_call'.key) + OptLen(last_call'.value)

\* with two records or more the buffer, prefix included, fits batch_size
C12_Fits == Len(appended) >= 2 => Len(writer.buffer) <= writer.batch_size

\* C12: (batch size bound) the worst-case size of the fullness check is
\* never below the bytes append writes for the record, so once two or more
\* records are accepted the buffer, its 4-byte prefix included, is at most
\* batch_size; only a batch of one record may be larger.
C12_BatchSizeBound == [](C12_Fits) /\ [][C12_AppendStep]_vars

\* a second record went in at the very limit of a 68-byte batch
C12_Witness ==
    /\ ~writer.closed
    /\ writer.batch_size = 68
    /\ Len(appended) = 2
    /\ last_call.op = "append"
    /\ last_call.ret
    /\ Len(writer.buffer) > 50

====
